---- MODULE Spec2Model ----
(***************************************************************************)
(* A model of the nogo-backend server: the board rule engine (rule.hpp),   *)
(* the match state machine (contest.hpp) and the Room / Session / turn     *)
(* timer of server.hpp.                                                    *)
(***************************************************************************)
EXTENDS Integers, Sequences, FiniteSets, TLC

(***************************************************************************)
(* Bounds of the model (inputs the clients may send, sessions accepted).   *)
(***************************************************************************)
\* moves are drawn from the first NumCells cells of CellOrder
NumCells == 3
\* connections accepted by the listener of the room
MaxSessions == 2
\* messages a session's outbound queue may hold before dispatching is held back
MaxQueue == 3
\* timer completion handlers queued in the io_context and not yet run
MaxReady == 1
\* SpecContest: moves are drawn from the first ContestCells cells of CellOrder
ContestCells == 4
\* matches of a run that are reset (Contest::clear) for a further one
MaxClears == 1
\* SpecChat: chat messages the buffer may hold at the start, chat messages
\* dispatched after it, and moves that end a match and are broadcast
ChatsBefore == 98
MaxChats == 3
MaxBroadcasts == 1

\* SpecBoard: the number of cells of the corner that hold any of the three roles
BoardCells == 8

(***************************************************************************)
(* rule.hpp: Position, Role, Board, State                                  *)
(***************************************************************************)
rank_n == 9

BLACK == 1
WHITE == -1
NONE == 0

Pos(x, y) == [x |-> x, y |-> y]

\* Position(): x { -1 }, y { -1 }
NoPosition == Pos(-1, -1)

\* Position::operator bool
PosValid(p) == p.x >= 0 /\ p.y >= 0

\* Position::operator+
PosAdd(p, d) == Pos(p.x + d.x, p.y + d.y)

delta == << Pos(-1, 0), Pos(1, 0), Pos(0, -1), Pos(0, 1) >>

in_border(p) == p.x >= 0 /\ p.y >= 0 /\ p.x < rank_n /\ p.y < rank_n

\* Board::operator[]: arr[p.x * rank_n + p.y]
idx(p) == p.x * rank_n + p.y

At(arr, p) == arr[idx(p)]

\* Board {}: every cell Role() = NONE
EmptyBoard == [i \in 0 .. (rank_n * rank_n - 1) |-> NONE]

\* Board::index()
index == [k \in 1 .. (rank_n * rank_n) |-> Pos((k - 1) \div rank_n, (k - 1) % rank_n)]

neighbor(p) == SelectSeq([i \in 1 .. Len(delta) |-> PosAdd(p, delta[i])], in_border)

\* Board::_liberties: depth-first search that marks `visit` (shared by reference
\* among the sibling calls) and stops at the first empty neighbour.
\* Returns the verdict r and the visit marks v left behind.
RECURSIVE _liberties(_, _, _)
RECURSIVE liberties_any_of(_, _, _, _)
_liberties(arr, p, visit) ==
    LET v1 == visit \cup {idx(p)}
        ns == neighbor(p)
    IN  IF \E i \in 1 .. Len(ns) : At(arr, ns[i]) = NONE
        THEN [r |-> TRUE, v |-> v1]
        ELSE liberties_any_of(arr, p, ns, v1)

\* the second std::ranges::any_of of _liberties, left to right, short-circuit
liberties_any_of(arr, p, ns, visit) ==
    IF ns = << >>
    THEN [r |-> FALSE, v |-> visit]
    ELSE LET n == Head(ns)
         IN  IF idx(n) \notin visit /\ At(arr, n) = At(arr, p)
             THEN LET sub == _liberties(arr, n, visit)
                  IN  IF sub.r THEN sub
                      ELSE liberties_any_of(arr, p, Tail(ns), sub.v)
             ELSE liberties_any_of(arr, p, Tail(ns), visit)

\* liberties that looks at the neighbours of p only (a faulty variant)
liberties_of_stone(arr, p) ==
    \E i \in 1 .. Len(neighbor(p)) : At(arr, neighbor(p)[i]) = NONE

\* Board::liberties
liberties(arr, p) == _liberties(arr, p, {}).r

\* is_capturing without the test of the neighbouring groups (a faulty variant)
is_capturing_self_only(arr, p) == ~liberties(arr, p)

is_capturing(arr, p) ==
    \/ ~liberties(arr, p)
    \/ \E i \in 1 .. Len(neighbor(p)) :
          LET n == neighbor(p)[i]
          IN  At(arr, n) = -At(arr, p) /\ ~liberties(arr, n)

\* State(Role role = Role::BLACK)
InitState == [board |-> EmptyBoard, role |-> BLACK, last_move |-> NoPosition]

\* next_state that keeps the role to move (a faulty variant)
next_state_keeps_role(st, p) ==
    [board |-> [st.board EXCEPT ![idx(p)] = st.role], role |-> st.role, last_move |-> p]

next_state(st, p) ==
    [board |-> [st.board EXCEPT ![idx(p)] = st.role], role |-> -st.role, last_move |-> p]

available_actions(st) ==
    SelectSeq(index,
        LAMBDA pos : At(st.board, pos) = NONE
                     /\ ~is_capturing(next_state(st, pos).board, pos))

is_over(st) ==
    IF PosValid(st.last_move) /\ is_capturing(st.board, st.last_move)
    THEN st.role
    ELSE NONE

(***************************************************************************)
(* contest.hpp: Player, PlayerList, Contest                                *)
(* An operation that may throw returns [ex, ...]: ex is "none" or the      *)
(* what() of the exception, and the object is as the throw left it.        *)
(***************************************************************************)
\* a null Participant_ptr
nullptr == 0

Player(participant, name, role, type) ==
    [participant |-> participant, name |-> name, role |-> role, type |-> type]

\* PlayerList::find: the first player matching the criteria; a role of NONE and a
\* null participant are wildcards. Returns the position in `players`, 0 = not found.
find(players, role, participant) ==
    LET hits == {i \in 1 .. Len(players) :
                    /\ (role = NONE \/ players[i].role = role)
                    /\ (participant = nullptr \/ players[i].participant = participant)}
    IN  IF hits = {} THEN 0 ELSE CHOOSE i \in hits : \A j \in hits : i <= j

\* PlayerList::at
at(players, role, participant) ==
    LET it == find(players, role, participant)
    IN  IF it = 0
        THEN [ex |-> "Player not found", player |-> Player(nullptr, << >>, NONE, "")]
        ELSE [ex |-> "none", player |-> players[it]]

contains(players, role) == find(players, role, nullptr) # 0

\* the role PlayerList::insert settles on for a player whose role is NONE
guess_role(players) ==
    IF contains(players, BLACK) THEN WHITE
    ELSE IF contains(players, WHITE) THEN BLACK
    ELSE NONE

\* PlayerList::insert without the test of the role being occupied
insert_in_occupied_role(players, player) ==
    IF \E i \in 1 .. Len(players) : players[i] = player
    THEN [ex |-> "Player already in list", players |-> players]
    ELSE IF player.role = NONE /\ guess_role(players) = NONE
    THEN [ex |-> "No role for player", players |-> players]
    ELSE [ex |-> "none",
          players |-> Append(players, IF player.role = NONE
                                      THEN [player EXCEPT !.role = guess_role(players)]
                                      ELSE player)]

\* PlayerList::insert
insert(players, player) ==
    IF \E i \in 1 .. Len(players) : players[i] = player
    THEN [ex |-> "Player already in list", players |-> players]
    ELSE IF player.role = NONE /\ guess_role(players) = NONE
    THEN [ex |-> "No role for player", players |-> players]
    ELSE LET p == IF player.role = NONE
                  THEN [player EXCEPT !.role = guess_role(players)]
                  ELSE player
         IN  IF contains(players, p.role)
             THEN [ex |-> "Role already occupied", players |-> players]
             ELSE [ex |-> "none", players |-> Append(players, p)]

\* GameResult {}
NoResult == [winner |-> NONE, win_type |-> "NONE", confirmed |-> FALSE]

\* a Contest as constructed (the timestamps are not modelled)
NewContest ==
    [should_giveup |-> FALSE,
     current |-> InitState,
     moves |-> << >>,
     players |-> << >>,
     status |-> "NOT_PREPARED",
     result |-> NoResult,
     local_role |-> NONE]

\* clear that forgets status = {} (a faulty variant)
clear_keeps_status(c) == [NewContest EXCEPT !.status = c.status]

\* Contest::clear
clear(c) == NewContest

\* Contest::reject
reject(c) ==
    IF c.status # "NOT_PREPARED"
    THEN [ex |-> "Contest already started", contest |-> c]
    ELSE [ex |-> "none", contest |-> [c EXCEPT !.players = << >>]]

\* enroll that starts the match as soon as one role is filled (a faulty variant)
enroll_one_role(c, player) ==
    IF c.status # "NOT_PREPARED"
    THEN [ex |-> "Contest already started", contest |-> c]
    ELSE LET ins == insert(c.players, player)
         IN  IF ins.ex # "none"
             THEN [ex |-> ins.ex, contest |-> c]
             ELSE [ex |-> "none",
                   contest |-> [c EXCEPT !.players = ins.players, !.status = "ON_GOING"]]

\* Contest::enroll
enroll(c, player) ==
    IF c.status # "NOT_PREPARED"
    THEN [ex |-> "Contest already started", contest |-> c]
    ELSE LET ins == insert(c.players, player)
         IN  IF ins.ex # "none"
             THEN [ex |-> ins.ex, contest |-> c]
             ELSE [ex |-> "none",
                   contest |->
                      [c EXCEPT !.players = ins.players,
                                !.status = IF contains(ins.players, BLACK)
                                              /\ contains(ins.players, WHITE)
                                           THEN "ON_GOING" ELSE @]]

\* play without the test of the target cell (a faulty variant)
play_on_occupied(c, player, pos) ==
    IF c.status # "ON_GOING"
    THEN [ex |-> "Contest not started", contest |-> c]
    ELSE IF c.current.role # player.role
    THEN [ex |-> "not allowed to play", contest |-> c]
    ELSE LET nxt == next_state(c.current, pos)
             winner == is_over(nxt)
         IN  [ex |-> "none",
              contest |->
                 [c EXCEPT !.current = nxt,
                           !.moves = Append(@, pos),
                           !.status = IF winner # NONE THEN "GAME_OVER" ELSE @,
                           !.result = IF winner # NONE
                                      THEN [winner |-> winner, win_type |-> "SUICIDE",
                                            confirmed |-> FALSE]
                                      ELSE @]]

\* Contest::play
play(c, player, pos) ==
    IF c.status # "ON_GOING"
    THEN [ex |-> "Contest not started", contest |-> c]
    ELSE IF c.current.role # player.role
    THEN [ex |-> "not allowed to play", contest |-> c]
    ELSE IF At(c.current.board, pos) # NONE
    THEN [ex |-> "Stone positionition occupied", contest |-> c]
    ELSE LET nxt == next_state(c.current, pos)
             winner == is_over(nxt)
         IN  [ex |-> "none",
              contest |->
                 [c EXCEPT !.current = nxt,
                           !.moves = Append(@, pos),
                           !.status = IF winner # NONE THEN "GAME_OVER" ELSE @,
                           !.result = IF winner # NONE
                                      THEN [winner |-> winner, win_type |-> "SUICIDE",
                                            confirmed |-> FALSE]
                                      ELSE @,
                           \* !current.available_actions().size(): no cell of
                           \* index passes the filter of available_actions
                           !.should_giveup =
                              IF \A k \in 1 .. Len(index) :
                                    ~(/\ At(nxt.board, index[k]) = NONE
                                      /\ ~is_capturing(next_state(nxt, index[k]).board,
                                                       index[k]))
                              THEN TRUE ELSE @]]

\* concede without the test of whose turn it is (a faulty variant)
concede_any_turn(c, player) ==
    IF c.status # "ON_GOING"
    THEN [ex |-> "Contest not started", contest |-> c]
    ELSE [ex |-> "none",
          contest |->
             [c EXCEPT !.status = "GAME_OVER",
                       !.result = [winner |-> -player.role, win_type |-> "GIVEUP",
                                   confirmed |-> FALSE]]]

\* Contest::concede
concede(c, player) ==
    IF c.status # "ON_GOING"
    THEN [ex |-> "Contest not started", contest |-> c]
    ELSE LET cur == at(c.players, c.current.role, nullptr)
         IN  IF cur.ex # "none"
             THEN [ex |-> cur.ex, contest |-> c]
             ELSE IF cur.player # player
             THEN [ex |-> "not allowed to concede", contest |-> c]
             ELSE [ex |-> "none",
                   contest |->
                      [c EXCEPT !.status = "GAME_OVER",
                                !.result = [winner |-> -player.role, win_type |-> "GIVEUP",
                                            confirmed |-> FALSE]]]

\* timeout without the test of whose turn it is (a faulty variant)
timeout_any_turn(c, player) ==
    IF c.status # "ON_GOING"
    THEN [ex |-> "Contest not started", contest |-> c]
    ELSE [ex |-> "none",
          contest |->
             [c EXCEPT !.status = "GAME_OVER",
                       !.result = [winner |-> -player.role, win_type |-> "TIMEOUT",
                                   confirmed |-> FALSE]]]

\* Contest::timeout
timeout(c, player) ==
    IF c.status # "ON_GOING"
    THEN [ex |-> "Contest not started", contest |-> c]
    ELSE LET cur == at(c.players, c.current.role, nullptr)
         IN  IF cur.ex # "none"
             THEN [ex |-> cur.ex, contest |-> c]
             ELSE IF cur.player # player
             THEN [ex |-> "not in turn", contest |-> c]
             ELSE [ex |-> "none",
                   contest |->
                      [c EXCEPT !.status = "GAME_OVER",
                                !.result = [winner |-> -player.role, win_type |-> "TIMEOUT",
                                            confirmed |-> FALSE]]]

(***************************************************************************)
(* message.hpp / server.hpp: messages.  A string is the sequence of its    *)
(* character codes, so that a coordinate token is decoded as the code      *)
(* decodes it.                                                             *)
(***************************************************************************)
str_empty == << >>
\* "b" and "w"
str_b == << 98 >>
str_w == << 119 >>
\* "BLACK" and "WHITE", the names of the two local players
str_BLACK == << 66, 76, 65, 67, 75 >>
str_WHITE == << 87, 72, 73, 84, 69 >>
\* the name a remote client gives
str_name == << 97 >>
\* "5": an elapsed-milliseconds field
str_ms == << 53 >>

Msg(op, data1, data2) == [op |-> op, data1 |-> data1, data2 |-> data2]

\* Message { op }: both data fields empty
OpMsg(op) == Msg(op, str_empty, str_empty)

\* Position::to_string: 'A' + x, then y + 1 in decimal
to_string(p) ==
    LET n == p.y + 1
    IN  << 65 + p.x >> \o (IF n >= 10 THEN << 48 + (n \div 10) >> ELSE << >>)
                       \o << 48 + (n % 10) >>

\* MOVE_OP: Position pos { data1[0] - 'A', data1[1] - '1' }
decode_pos(data1) == Pos(data1[1] - 65, data1[2] - 49)

\* data == "b" ? Role::BLACK : data == "w" ? Role::WHITE : Role::NONE
decode_role(data) ==
    IF data = str_b THEN BLACK ELSE IF data = str_w THEN WHITE ELSE NONE

\* std::stoull throws std::invalid_argument when the field does not start a number
stoull_throws(data) == Len(data) = 0 \/ data[1] \notin 48 .. 57

\* UiState::to_string: of the snapshot only is_gaming is modelled ("true"/"false")
UiState(c) ==
    IF c.status = "ON_GOING" THEN << 116, 114, 117, 101 >> ELSE << 102, 97, 108, 115, 101 >>

UiMessage(c) == Msg("UPDATE_UI_STATE_OP", str_empty, UiState(c))

(***************************************************************************)
(* server.hpp: Room and Session.  R is the room with its sessions:         *)
(*   contest, recent_msgs_, participants_   Room's members                 *)
(*   timer_      the waits pending on Room::timer_ (the handlers' captures)*)
(*   completed   the timer handlers the io_context has queued to run       *)
(*   write_msgs_, socket_open               per Session                    *)
(*   is_local    Participant::is_local, the same for all sessions of a room*)
(*   calls       the Contest operations the handler being run has called   *)
(***************************************************************************)
max_recent_msgs == 100

\* Session::deliver
Session_deliver(R, s, msg) == [R EXCEPT !.write_msgs_[s] = Append(@, msg)]

\* Room::leave without the erase
leave_keeps_participant(R, s) == R

\* Room::leave
leave(R, s) == [R EXCEPT !.participants_ = @ \ {s}]

\* Session::stop
stop(R, s) == [leave(R, s) EXCEPT !.socket_open[s] = FALSE]

\* push_back, then pop_front while over max_recent_msgs
push_recent(recent, msg) ==
    LET all == Append(recent, msg)
    IN  IF Len(all) > max_recent_msgs
        THEN SubSeq(all, Len(all) - max_recent_msgs + 1, Len(all))
        ELSE all

\* Room::deliver: once per joined p != participant, participant->deliver(msg)
RECURSIVE deliver_times(_, _, _, _)
deliver_times(R, s, msg, n) ==
    IF n = 0 THEN R ELSE deliver_times(Session_deliver(R, s, msg), s, msg, n - 1)

Room_deliver(R, msg, participant) ==
    deliver_times([R EXCEPT !.recent_msgs_ = push_recent(@, msg)],
                  participant, msg, Cardinality(R.participants_ \ {participant}))

\* Room::join
join(R, s) ==
    LET R1 == [R EXCEPT !.participants_ = @ \cup {s}]
    IN  [R1 EXCEPT !.write_msgs_[s] = @ \o R.recent_msgs_]

\* a wait pending on the timer: the handler's capture `opponent`, and (history) the
\* contest as it was when the wait was armed
Wait(opponent, c) == [opponent |-> opponent, seen |-> c]

\* the handler of a wait, queued to run with error code ec
Completion(w, ec) == [opponent |-> w.opponent, seen |-> w.seen, ec |-> ec]

\* steady_timer::cancel: every pending wait completes with operation_aborted
timer_cancel(R) ==
    [R EXCEPT !.completed = @ \o [i \in 1 .. Len(R.timer_) |->
                                    Completion(R.timer_[i], "operation_aborted")],
              !.timer_ = << >>]

\* the deadline passes: every pending wait completes with success
timer_expire(R) ==
    [R EXCEPT !.completed = @ \o [i \in 1 .. Len(R.timer_) |->
                                    Completion(R.timer_[i], "success")],
              !.timer_ = << >>]

\* steady_timer::expires_after (cancels what is pending), then async_wait
timer_arm(R, opponent) ==
    [timer_cancel(R) EXCEPT !.timer_ = << Wait(opponent, R.contest) >>]

\* if (participant->is_local) participant->deliver(UiMessage(contest))
deliver_ui(R, s) ==
    IF R.is_local THEN Session_deliver(R, s, UiMessage(R.contest)) ELSE R

Thrown(what, R) == [ex |-> what, R |-> R]
Returned(R) == [ex |-> "none", R |-> R]

\* a call of a Contest operation by the room: the contest is what the operation
\* left, and the call is noted in R.calls (the calls of the handler being run)
Call(R, op, r) ==
    [R EXCEPT !.contest = r.contest,
              !.calls = Append(@, [op |-> op, pre |-> R.contest.status,
                                   post |-> r.contest.status, ex |-> r.ex])]

\* case OpCode::START_LOCAL_GAME_OP
START_LOCAL_GAME_OP(R, msg, s) ==
    LET R0 == IF R.contest.status = "GAME_OVER"
              THEN Call(R, "clear", [ex |-> "none", contest |-> clear(R.contest)])
              ELSE R
        e1 == enroll(R0.contest, Player(s, str_BLACK, BLACK, "LOCAL_HUMAN_PLAYER"))
        R1 == Call(R0, "enroll", e1)
        e2 == enroll(R1.contest, Player(s, str_WHITE, WHITE, "LOCAL_HUMAN_PLAYER"))
        R2 == Call(R1, "enroll", e2)
    IN  IF e1.ex # "none" THEN Thrown(e1.ex, R1)
        ELSE IF e2.ex # "none" THEN Thrown(e2.ex, R2)
        ELSE Returned(deliver_ui(R2, s))

\* case OpCode::LOCAL_GAME_TIMEOUT_OP
LOCAL_GAME_TIMEOUT_OP(R, msg, s) ==
    LET who == at(R.contest.players, decode_role(msg.data1), s)
        t == timeout(R.contest, who.player)
    IN  IF who.ex # "none" THEN Thrown(who.ex, R)
        ELSE IF t.ex # "none" THEN Thrown(t.ex, Call(R, "timeout", t))
        ELSE Returned(deliver_ui(Call(R, "timeout", t), s))

\* case OpCode::READY_OP
READY_OP(R, msg, s) ==
    LET e == enroll(R.contest,
                    Player(s, msg.data1, decode_role(msg.data2), "REMOTE_HUMAN_PLAYER"))
    IN  IF e.ex # "none" THEN Thrown(e.ex, Call(R, "enroll", e))
        ELSE Returned(Call(R, "enroll", e))

\* case OpCode::REJECT_OP
REJECT_OP(R, msg, s) ==
    LET r == reject(R.contest)
    IN  IF r.ex # "none" THEN Thrown(r.ex, Call(R, "reject", r))
        ELSE Returned(Call(R, "reject", r))

\* the tail of case MOVE_OP, after the timer is armed
move_notify(R, msg, s, player, opponent) ==
    IF R.contest.result.winner = opponent.role
    THEN Room_deliver(Session_deliver(R, s, OpMsg("SUICIDE_END_OP")), msg, s)
    ELSE IF R.contest.result.winner = player.role
    THEN Session_deliver(Session_deliver(R, s, OpMsg("GIVEUP_OP")),
                         opponent.participant, OpMsg("GIVEUP_END_OP"))
    ELSE R

\* case OpCode::MOVE_OP
MOVE_OP(R, msg, s) ==
    LET R1 == timer_cancel(R)
        pos == decode_pos(msg.data1)
        me == at(R1.contest.players, NONE, s)
        opp == at(R1.contest.players, -me.player.role, nullptr)
        p == play(R1.contest, me.player, pos)
        R2 == deliver_ui(Call(R1, "play", p), s)
        R3 == timer_arm(R2, opp.player)
    IN  IF stoull_throws(msg.data2) THEN Thrown("stoull", R1)
        ELSE IF me.ex # "none" THEN Thrown(me.ex, R1)
        ELSE IF opp.ex # "none" THEN Thrown(opp.ex, R1)
        ELSE IF p.ex # "none" THEN Thrown(p.ex, Call(R1, "play", p))
        ELSE Returned(move_notify(R3, msg, s, me.player, opp.player))

\* case OpCode::GIVEUP_OP
GIVEUP_OP(R, msg, s) ==
    LET who == at(R.contest.players, decode_role(msg.data2), s)
        g == concede(R.contest, who.player)
    IN  IF who.ex # "none" THEN Thrown(who.ex, R)
        ELSE IF g.ex # "none" THEN Thrown(g.ex, Call(R, "concede", g))
        ELSE Returned(deliver_ui(Call(R, "concede", g), s))

\* case OpCode::LEAVE_OP
LEAVE_OP(R, msg, s) == Returned(stop(R, s))

\* case OpCode::CHAT_OP: for (auto participant : participants_) participant->deliver(msg)
CHAT_OP(R, msg, s) ==
    Returned([R EXCEPT !.recent_msgs_ = push_recent(@, msg),
                       !.write_msgs_ = [t \in DOMAIN @ |->
                                          IF t \in R.participants_
                                          THEN Append(@[t], msg) ELSE @[t]]])

\* Room::process_data
process_data(R, msg, s) ==
    CASE msg.op = "START_LOCAL_GAME_OP" -> START_LOCAL_GAME_OP(R, msg, s)
      [] msg.op = "LOCAL_GAME_TIMEOUT_OP" -> LOCAL_GAME_TIMEOUT_OP(R, msg, s)
      [] msg.op = "READY_OP" -> READY_OP(R, msg, s)
      [] msg.op = "REJECT_OP" -> REJECT_OP(R, msg, s)
      [] msg.op = "MOVE_OP" -> MOVE_OP(R, msg, s)
      [] msg.op = "GIVEUP_OP" -> GIVEUP_OP(R, msg, s)
      [] msg.op = "LEAVE_OP" -> LEAVE_OP(R, msg, s)
      [] msg.op = "CHAT_OP" -> CHAT_OP(R, msg, s)
      [] OTHER -> Returned(R)

\* Session::reader, one turn of its loop: the message is handed to the room, and
\* an exception of the dispatch is caught and stops the session
reader(R, msg, s) ==
    LET d == process_data(R, msg, s)
    IN  IF d.ex # "none" THEN [ex |-> d.ex, R |-> stop(d.R, s)] ELSE d

\* the handler without the test of its error code (a faulty variant)
timer_handler_ignores_ec(R, h) ==
    LET t == timeout(R.contest, h.opponent)
    IN  IF t.ex # "none" THEN Thrown(t.ex, Call(R, "timeout", t))
        ELSE Returned(Session_deliver(Call(R, "timeout", t), h.opponent.participant,
                                      OpMsg("TIMEOUT_END_OP")))

\* the handler of timer_.async_wait in case MOVE_OP.  An exception of
\* contest.timeout leaves the handler and io_context.run().
timer_handler(R, h) ==
    IF h.ec # "success" THEN Returned(R)
    ELSE LET t == timeout(R.contest, h.opponent)
         IN  IF t.ex # "none" THEN Thrown(t.ex, Call(R, "timeout", t))
             ELSE Returned(Session_deliver(Call(R, "timeout", t),
                                           h.opponent.participant,
                                           OpMsg("TIMEOUT_END_OP")))

(***************************************************************************)
(* The state: one Room (one listener), its Contest, timer and Sessions.    *)
(***************************************************************************)
VARIABLES
    contest,        \* Room::contest
    recent_msgs_,   \* Room::recent_msgs_
    participants_,  \* Room::participants_
    timer_,         \* the waits pending on Room::timer_
    completed,      \* timer handlers queued in the io_context, with their error code
    write_msgs_,    \* Session::write_msgs_, per session
    socket_open,    \* Session::socket_.is_open(), per session
    accepted,       \* the sessions the listener has created
    is_local,       \* the listener's is_local
    running,        \* io_context.run() has not been left by an exception
    cleared,        \* history: the number of Contest::clear calls so far
    call,           \* history: the Contest operation called last (SpecContest)
    chat_log,       \* history: the chat messages dispatched so far, in order
    reader_pc,      \* where Session::reader is, per session (SpecSession)
    writer_pc,      \* where Session::writer is, per session (SpecSession)
    sent,           \* history: the messages async_write has transmitted, per session
    delivered       \* history: the messages passed to Session::deliver, per session

\* the coroutines of the sessions and what they have transmitted
coroutines == << reader_pc, writer_pc, sent, delivered >>

vars == << contest, recent_msgs_, participants_, timer_, completed, write_msgs_,
           socket_open, accepted, is_local, running, cleared, call, chat_log,
           coroutines >>

Sessions == 1 .. MaxSessions

\* the cells the clients play on: the corner of the board
CellOrder == << Pos(0, 0), Pos(0, 1), Pos(1, 0), Pos(1, 1), Pos(0, 2), Pos(2, 0) >>
MoveCells == {CellOrder[k] : k \in 1 .. NumCells}

RoleFields == {str_b, str_w, str_empty}

\* the messages a client sends
Inputs ==
    {OpMsg(op) : op \in {"START_LOCAL_GAME_OP", "REJECT_OP", "LEAVE_OP"}}
    \cup {Msg("LOCAL_GAME_TIMEOUT_OP", r, str_empty) : r \in RoleFields}
    \cup {Msg("READY_OP", str_name, r) : r \in RoleFields}
    \cup {Msg("GIVEUP_OP", str_empty, r) : r \in RoleFields}
    \cup {Msg("MOVE_OP", to_string(c), ms) : c \in MoveCells, ms \in {str_ms, str_empty}}

Room ==
    [contest |-> contest, recent_msgs_ |-> recent_msgs_, participants_ |-> participants_,
     timer_ |-> timer_, completed |-> completed, write_msgs_ |-> write_msgs_,
     socket_open |-> socket_open, is_local |-> is_local, calls |-> << >>]

InBounds(R) ==
    /\ \A s \in Sessions : Len(R.write_msgs_[s]) <= MaxQueue
    /\ Len(R.completed) <= MaxReady

\* the room and its sessions are as the handler left them
Installs(R) ==
    /\ contest' = R.contest
    /\ recent_msgs_' = R.recent_msgs_
    /\ participants_' = R.participants_
    /\ timer_' = R.timer_
    /\ completed' = R.completed
    /\ write_msgs_' = R.write_msgs_
    /\ socket_open' = R.socket_open
    /\ is_local' = R.is_local

Becomes(R) == InBounds(R) /\ Installs(R)

\* no Contest operation has been called
NoCall == [op |-> "none", ex |-> "none"]

\* no session has been started: no coroutine spawned, nothing delivered or sent
NotStarted ==
    /\ reader_pc = [s \in Sessions |-> "none"]
    /\ writer_pc = [s \in Sessions |-> "none"]
    /\ sent = [s \in Sessions |-> << >>]
    /\ delivered = [s \in Sessions |-> << >>]

Init ==
    /\ contest = NewContest
    /\ recent_msgs_ = << >>
    /\ participants_ = {}
    /\ timer_ = << >>
    /\ completed = << >>
    /\ write_msgs_ = [s \in Sessions |-> << >>]
    /\ socket_open = [s \in Sessions |-> FALSE]
    /\ accepted = {}
    /\ is_local \in BOOLEAN
    /\ running = TRUE
    /\ cleared = 0
    /\ call = NoCall
    /\ chat_log = << >>
    /\ NotStarted

\* listener: async_accept, make_shared<Session>, Session::start
Accept ==
    /\ running
    /\ Cardinality(accepted) < MaxSessions
    /\ LET s == Cardinality(accepted) + 1
       IN  /\ accepted' = accepted \cup {s}
           /\ Becomes(join([Room EXCEPT !.socket_open[s] = TRUE], s))
    /\ UNCHANGED << coroutines, running, cleared, call, chat_log >>

\* Session::reader receives a line and dispatches it
Dispatch(s, msg) ==
    /\ running
    /\ s \in accepted /\ socket_open[s]
    /\ LET d == reader(Room, msg, s)
           clears == IF msg.op = "START_LOCAL_GAME_OP" /\ contest.status = "GAME_OVER"
                     THEN 1 ELSE 0
       IN  /\ cleared + clears <= MaxClears
           /\ cleared' = cleared + clears
           /\ Becomes(d.R)
    /\ UNCHANGED << coroutines, accepted, running, call, chat_log >>

\* Session::reader: async_read_until fails (EOF, transport error)
ReadError(s) ==
    /\ running
    /\ s \in accepted /\ socket_open[s]
    /\ Becomes(stop(Room, s))
    /\ UNCHANGED << coroutines, accepted, running, cleared, call, chat_log >>

\* Session::writer: async_write of the front message, then pop_front.  Not a step
\* of Next: a queue keeps every message delivered to its session, in order.
Write(s) ==
    /\ running
    /\ s \in accepted /\ socket_open[s]
    /\ write_msgs_[s] # << >>
    /\ Becomes([Room EXCEPT !.write_msgs_[s] = Tail(@)])
    /\ UNCHANGED << coroutines, accepted, running, cleared, call, chat_log >>

\* the deadline of Room::timer_ passes: the pending wait completes with success
\* and its handler is queued
Expire ==
    /\ running
    /\ timer_ # << >>
    /\ Becomes(timer_expire(Room))
    /\ UNCHANGED << coroutines, accepted, running, cleared, call, chat_log >>

\* io_context.run() runs the next queued timer handler
RunHandler ==
    /\ running
    /\ completed # << >>
    /\ LET h == Head(completed)
           r == timer_handler([Room EXCEPT !.completed = Tail(@)], h)
       IN  /\ Becomes(r.R)
           /\ running' = (r.ex = "none")
    /\ UNCHANGED << coroutines, accepted, cleared, call, chat_log >>

Next ==
    \/ Accept
    \/ \E s \in Sessions, msg \in Inputs : Dispatch(s, msg)
    \/ \E s \in Sessions : ReadError(s)
    \/ Expire
    \/ RunHandler

Spec == Init /\ [][Next]_vars
(***************************************************************************)
(* SpecContest: the Contest alone, its operations called one at a time     *)
(* with any player and position of the input sets; `call` notes the        *)
(* operation called last and the exception it threw.                       *)
(***************************************************************************)
ContestPlayers ==
    {Player(s, str_name, r, "REMOTE_HUMAN_PLAYER") : s \in Sessions, r \in {BLACK, WHITE, NONE}}

ContestMoves == {CellOrder[k] : k \in 1 .. ContestCells}

Called(op, r) ==
    /\ contest' = r.contest
    /\ call' = [op |-> op, ex |-> r.ex]
    /\ UNCHANGED << coroutines, recent_msgs_, participants_, timer_, completed, write_msgs_,
                    socket_open, accepted, is_local, running, cleared, chat_log >>

ContestInit ==
    /\ Init
    /\ is_local = FALSE

CallEnroll(player) == Called("enroll", enroll(contest, player))

CallReject == Called("reject", reject(contest))

CallPlay(player, pos) == Called("play", play(contest, player, pos))

CallConcede(player) == Called("concede", concede(contest, player))

CallTimeout(player) == Called("timeout", timeout(contest, player))

CallClear ==
    Called("clear", [ex |-> "none", contest |-> clear(contest)])

ContestNext ==
    \/ \E player \in ContestPlayers : CallEnroll(player)
    \/ CallReject
    \/ \E player \in ContestPlayers, pos \in ContestMoves : CallPlay(player, pos)
    \/ \E player \in ContestPlayers : CallConcede(player)
    \/ \E player \in ContestPlayers : CallTimeout(player)
    \/ CallClear

SpecContest == ContestInit /\ [][ContestNext]_vars
(***************************************************************************)
(* SpecChat: the chat of a room.  The room starts with an empty buffer or  *)
(* with ChatsBefore chat messages in it, sent by sessions that have gone;  *)
(* no match is followed: of a match only the move that ends it is seen,    *)
(* by what MOVE_OP then delivers and broadcasts.                           *)
(***************************************************************************)
ChatTexts == {<< 104 >>, << 105 >>}

\* the k-th chat message of the start
ChatBefore(k) == Msg("CHAT_OP", IF k % 2 = 0 THEN << 104 >> ELSE << 105 >>, str_empty)

ChatInit ==
    /\ contest = NewContest
    /\ \E k \in {0, ChatsBefore} :
          /\ chat_log = [i \in 1 .. k |-> ChatBefore(i)]
          /\ recent_msgs_ = chat_log
    /\ participants_ = {}
    /\ timer_ = << >>
    /\ completed = << >>
    /\ write_msgs_ = [s \in Sessions |-> << >>]
    /\ socket_open = [s \in Sessions |-> FALSE]
    /\ accepted = {}
    /\ is_local = FALSE
    /\ running = TRUE
    /\ cleared = 0
    /\ call = NoCall
    /\ NotStarted

\* listener: async_accept, make_shared<Session>, Session::start
ChatAccept ==
    /\ Cardinality(accepted) < MaxSessions
    /\ LET s == Cardinality(accepted) + 1
       IN  /\ accepted' = accepted \cup {s}
           /\ Installs(join([Room EXCEPT !.socket_open[s] = TRUE], s))
    /\ UNCHANGED << coroutines, running, cleared, call, chat_log >>

\* Session::reader receives a chat line and dispatches it
Chat(s, text) ==
    /\ s \in accepted /\ socket_open[s]
    /\ \/ Len(chat_log) < MaxChats
       \/ Len(chat_log) >= ChatsBefore /\ Len(chat_log) < ChatsBefore + MaxChats
    /\ LET msg == Msg("CHAT_OP", text, str_empty)
       IN  /\ Installs(reader(Room, msg, s).R)
           /\ chat_log' = Append(chat_log, msg)
    /\ UNCHANGED << coroutines, accepted, running, cleared, call >>

\* Session::reader receives LEAVE_OP
ChatLeave(s) ==
    /\ s \in accepted /\ socket_open[s]
    /\ Installs(reader(Room, OpMsg("LEAVE_OP"), s).R)
    /\ UNCHANGED << coroutines, accepted, running, cleared, call, chat_log >>

\* case MOVE_OP, when the move of session s has ended the match:
\* participant->deliver({ SUICIDE_END_OP }); deliver(msg, participant)
EndingMove(s, pos) ==
    /\ s \in accepted /\ socket_open[s]
    /\ Cardinality({i \in 1 .. Len(recent_msgs_) : recent_msgs_[i].op = "MOVE_OP"})
          < MaxBroadcasts
    /\ Installs(Room_deliver(Session_deliver(Room, s, OpMsg("SUICIDE_END_OP")),
                             Msg("MOVE_OP", to_string(pos), str_ms), s))
    /\ UNCHANGED << coroutines, accepted, running, cleared, call, chat_log >>

ChatNext ==
    \/ ChatAccept
    \/ \E s \in Sessions, text \in ChatTexts : Chat(s, text)
    \/ \E s \in Sessions : ChatLeave(s)
    \/ \E s \in Sessions : EndingMove(s, CellOrder[1])

SpecChat == ChatInit /\ [][ChatNext]_vars

(***************************************************************************)
(* SpecSession: the two coroutines of each Session.  io_context.run() runs  *)
(* on one thread, so a coroutine runs from one suspension point to the     *)
(* next without interleaving.  reader_pc and writer_pc say where each      *)
(* coroutine is: "ready" (spawned or resumed, queued in the io_context),   *)
(* "read" (in async_read_until), "wait" (in timer_.async_wait), "write"    *)
(* (in async_write), "done" (returned).  The clients chat and leave.       *)
(***************************************************************************)
\* Session::timer_.cancel_one() as the writer at pc sees it: nothing is cancelled
cancel_one_without_waiter(pc) == pc

\* Session::timer_.cancel_one() as the writer at pc sees it: its wait, if it is
\* in one, completes, and the writer is queued for resumption
cancel_one(pc) == IF pc = "wait" THEN "ready" ELSE pc

\* Session::timer_.cancel() as the writer at pc sees it: nothing is cancelled
cancel_without_waiter(pc) == pc

\* Session::timer_.cancel() as the writer at pc sees it
cancel(pc) == IF pc = "wait" THEN "ready" ELSE pc

\* the messages a handler that left the room as R has passed to Session::deliver
\* of session t (no handler takes a message off a queue)
Passed(R, t) == SubSeq(R.write_msgs_[t], Len(write_msgs_[t]) + 1, Len(R.write_msgs_[t]))

\* the writers after a handler that left the room as R: Session::deliver has
\* called timer_.cancel_one(), Session::stop has called timer_.cancel()
Resumed(R) ==
    [t \in Sessions |->
       LET pc == IF Passed(R, t) # << >> THEN cancel_one(writer_pc[t]) ELSE writer_pc[t]
       IN  IF ~R.socket_open[t] THEN cancel(pc) ELSE pc]

\* a handler has run and left the room as R
Handled(R) ==
    /\ Installs(R)
    /\ writer_pc' = Resumed(R)
    /\ delivered' = [t \in Sessions |-> delivered[t] \o Passed(R, t)]

\* the text of the n-th chat message
ChatText(n) == << 104 + n >>

SessionInit ==
    /\ Init
    /\ is_local = FALSE

\* listener: async_accept, make_shared<Session>, Session::start: join, and
\* co_spawn of reader and writer
SessionAccept ==
    /\ Cardinality(accepted) < MaxSessions
    /\ LET s == Cardinality(accepted) + 1
           R == join([Room EXCEPT !.socket_open[s] = TRUE], s)
       IN  /\ accepted' = accepted \cup {s}
           /\ Installs(R)
           /\ reader_pc' = [reader_pc EXCEPT ![s] = "ready"]
           /\ writer_pc' = [Resumed(R) EXCEPT ![s] = "ready"]
           /\ delivered' = [t \in Sessions |-> delivered[t] \o Passed(R, t)]
    /\ UNCHANGED << sent, running, cleared, call, chat_log >>

\* Session::reader starts: async_read_until
ReaderRuns(s) ==
    /\ reader_pc[s] = "ready"
    /\ reader_pc' = [reader_pc EXCEPT ![s] = "read"]
    /\ UNCHANGED << contest, recent_msgs_, participants_, timer_, completed, write_msgs_,
                    socket_open, accepted, is_local, running, cleared, call, chat_log,
                    writer_pc, sent, delivered >>

\* Session::reader: a line has come, process_data, (catch: stop), async_read_until
Receive(s, msg) ==
    /\ reader_pc[s] = "read" /\ socket_open[s]
    /\ \E d \in {reader(Room, msg, s)} :
          /\ Handled(d.R)
          /\ reader_pc' = [reader_pc EXCEPT ![s] = IF d.ex = "none" THEN "read" ELSE "done"]
    /\ UNCHANGED << sent, accepted, running, cleared, call >>

\* a client sends the next chat message
ReceiveChat(s) ==
    /\ Len(chat_log) < MaxChats
    /\ LET msg == Msg("CHAT_OP", ChatText(Len(chat_log) + 1), str_empty)
       IN  /\ Receive(s, msg)
           /\ chat_log' = Append(chat_log, msg)

\* a client sends LEAVE_OP
ReceiveLeave(s) ==
    /\ Receive(s, OpMsg("LEAVE_OP"))
    /\ chat_log' = chat_log

\* Session::reader: async_read_until fails on the open socket (EOF, transport
\* error); catch: stop()
ReadFails(s) ==
    /\ reader_pc[s] = "read" /\ socket_open[s]
    /\ Handled(stop(Room, s))
    /\ reader_pc' = [reader_pc EXCEPT ![s] = "done"]
    /\ UNCHANGED << sent, accepted, running, cleared, call, chat_log >>

\* Session::reader: async_read_until fails as the socket has been closed;
\* catch: stop(), once more
ReadAborted(s) ==
    /\ reader_pc[s] = "read" /\ ~socket_open[s]
    /\ Handled(stop(Room, s))
    /\ reader_pc' = [reader_pc EXCEPT ![s] = "done"]
    /\ UNCHANGED << sent, accepted, running, cleared, call, chat_log >>

\* Session::writer starts or is resumed after its wait or its write: the test
\* of the loop, then async_wait or async_write
WriterRuns(s) ==
    /\ writer_pc[s] = "ready"
    /\ writer_pc' = [writer_pc EXCEPT ![s] =
                       IF ~socket_open[s] THEN "done"
                       ELSE IF write_msgs_[s] = << >> THEN "wait"
                       ELSE "write"]
    /\ UNCHANGED << contest, recent_msgs_, participants_, timer_, completed, write_msgs_,
                    socket_open, accepted, is_local, running, cleared, call, chat_log,
                    reader_pc, sent, delivered >>

\* Session::writer: async_write has transmitted the front message; pop_front
WriteCompletes(s) ==
    /\ writer_pc[s] = "write" /\ socket_open[s]
    /\ sent' = [sent EXCEPT ![s] = Append(@, Head(write_msgs_[s]))]
    /\ write_msgs_' = [write_msgs_ EXCEPT ![s] = Tail(@)]
    /\ writer_pc' = [writer_pc EXCEPT ![s] = "ready"]
    /\ UNCHANGED << contest, recent_msgs_, participants_, timer_, completed,
                    socket_open, accepted, is_local, running, cleared, call, chat_log,
                    reader_pc, delivered >>

\* Session::writer: async_write fails on the open socket; catch: stop()
WriteFails(s) ==
    /\ writer_pc[s] = "write" /\ socket_open[s]
    /\ Installs(stop(Room, s))
    /\ writer_pc' = [writer_pc EXCEPT ![s] = "done"]
    /\ UNCHANGED << reader_pc, sent, delivered, accepted, running, cleared, call, chat_log >>

\* Session::writer: async_write fails as the socket has been closed; catch:
\* stop(), once more
WriteAborted(s) ==
    /\ writer_pc[s] = "write" /\ ~socket_open[s]
    /\ Installs(stop(Room, s))
    /\ writer_pc' = [writer_pc EXCEPT ![s] = "done"]
    /\ UNCHANGED << reader_pc, sent, delivered, accepted, running, cleared, call, chat_log >>

SessionNext ==
    \/ SessionAccept
    \/ \E s \in Sessions : ReaderRuns(s)
    \/ \E s \in Sessions : ReceiveChat(s)
    \/ \E s \in Sessions : ReceiveLeave(s)
    \/ \E s \in Sessions : ReadFails(s)
    \/ \E s \in Sessions : ReadAborted(s)
    \/ \E s \in Sessions : WriterRuns(s)
    \/ \E s \in Sessions : WriteCompletes(s)
    \/ \E s \in Sessions : WriteFails(s)
    \/ \E s \in Sessions : WriteAborted(s)

SpecSession == SessionInit /\ [][SessionNext]_vars

\* io_context.run() resumes every queued coroutine; an operation on a closed
\* socket completes (with an error); an async_write on an open socket completes
\* or fails.  A client need not send anything.  A coroutine is at one place, so
\* at most one of its steps is enabled.
SessionFairness ==
    \A s \in Sessions :
       /\ WF_vars(ReaderRuns(s) \/ ReadAborted(s))
       /\ WF_vars(WriterRuns(s) \/ WriteAborted(s) \/ WriteCompletes(s) \/ WriteFails(s))

SpecSessionFair == SpecSession /\ SessionFairness

(***************************************************************************)
(* SpecBoard: Board::liberties on its own.  The board is any filling of    *)
(* the first BoardCells cells of the corner with BLACK, WHITE and NONE,    *)
(* every other cell being empty; liberties is called on its occupied       *)
(* cells, and `call` notes the cell asked and the answer.                  *)
(***************************************************************************)
BoardOrder ==
    << Pos(0, 0), Pos(0, 1), Pos(1, 0), Pos(1, 1), Pos(0, 2), Pos(1, 2), Pos(2, 0),
       Pos(2, 1), Pos(2, 2), Pos(0, 3) >>

BoardRegion == {BoardOrder[k] : k \in 1 .. BoardCells}

\* the boards of SpecBoard
Boards ==
    {[i \in 0 .. (rank_n * rank_n - 1) |->
        IF \E q \in BoardRegion : idx(q) = i
        THEN f[CHOOSE q \in BoardRegion : idx(q) = i]
        ELSE NONE] : f \in [BoardRegion -> {BLACK, WHITE, NONE}]}

BoardInit ==
    /\ \E arr \in Boards : contest = [NewContest EXCEPT !.current.board = arr]
    /\ recent_msgs_ = << >>
    /\ participants_ = {}
    /\ timer_ = << >>
    /\ completed = << >>
    /\ write_msgs_ = [s \in Sessions |-> << >>]
    /\ socket_open = [s \in Sessions |-> FALSE]
    /\ accepted = {}
    /\ is_local = FALSE
    /\ running = TRUE
    /\ cleared = 0
    /\ call = NoCall
    /\ chat_log = << >>
    /\ NotStarted

\* board.liberties(p), p an occupied cell
CallLiberties(p) ==
    /\ At(contest.current.board, p) # NONE
    /\ call' = [op |-> "liberties", ex |-> "none", p |-> p,
                r |-> liberties(contest.current.board, p)]
    /\ UNCHANGED << coroutines, contest, recent_msgs_, participants_, timer_, completed,
                    write_msgs_, socket_open, accepted, is_local, running, cleared,
                    chat_log >>

BoardNext == \E p \in BoardRegion : CallLiberties(p)

SpecBoard == BoardInit /\ [][BoardNext]_vars

(***************************************************************************)
(* Properties.                                                             *)
(***************************************************************************)
\* The groups and their liberties, stated on the board and not by the search.
AllPos == {index[k] : k \in 1 .. Len(index)}

Adjacent(p, q) ==
    \/ p.x = q.x /\ (p.y = q.y + 1 \/ q.y = p.y + 1)
    \/ p.y = q.y /\ (p.x = q.x + 1 \/ q.x = p.x + 1)

RECURSIVE Grow(_, _, _)
Grow(arr, role, S) ==
    LET N == S \cup {q \in AllPos : At(arr, q) = role /\ \E g \in S : Adjacent(g, q)}
    IN  IF N = S THEN S ELSE Grow(arr, role, N)

\* the connected same-role group that contains the occupied cell p
Group(arr, p) == Grow(arr, At(arr, p), {p})

\* no cell of p's group has an orthogonally adjacent empty cell
Dead(arr, p) ==
    ~ \E g \in Group(arr, p), q \in AllPos : Adjacent(g, q) /\ At(arr, q) = NONE

\* p's group, or an opposing group orthogonally adjacent to p, is dead
CaptureAt(arr, p) ==
    \/ Dead(arr, p)
    \/ \E q \in AllPos : Adjacent(p, q) /\ At(arr, q) = -At(arr, p) /\ Dead(arr, q)

\* player is the enrolled player whose turn it is, in an on-going match
Turn(c, player) ==
    /\ c.status = "ON_GOING"
    /\ player.role = c.current.role
    /\ \E i \in 1 .. Len(c.players) : c.players[i] = player

\* ---- C1 ----
\* one Contest call changes the status only NOT_PREPARED -> ON_GOING (enroll),
\* ON_GOING -> GAME_OVER (play, concede, timeout), or to NOT_PREPARED (clear)
LegalCall(k) ==
    IF k.op = "clear" THEN k.post = "NOT_PREPARED"
    ELSE \/ k.post = k.pre
         \/ k.op = "enroll" /\ k.pre = "NOT_PREPARED" /\ k.post = "ON_GOING"
         \/ k.op \in {"play", "concede", "timeout"}
            /\ k.pre = "ON_GOING" /\ k.post = "GAME_OVER"

\* the calls of a handler account for the whole change of status it makes
LegalCalls(before, d) ==
    LET calls == d.R.calls
    IN  /\ \A i \in 1 .. Len(calls) :
              /\ LegalCall(calls[i])
              /\ calls[i].pre = IF i = 1 THEN before.status ELSE calls[i - 1].post
        /\ d.R.contest.status =
              IF calls = << >> THEN before.status ELSE calls[Len(calls)].post

\* C1: whatever message is dispatched and whichever timer handler runs, in any
\* reachable state, the status moves only NOT_PREPARED -> ON_GOING by enroll and
\* ON_GOING -> GAME_OVER by play, concede or timeout; every other change is a
\* clear(), which returns it to NOT_PREPARED.
C1_StatusOnlyAdvances ==
    /\ \A s \in accepted, msg \in Inputs :
          socket_open[s] => LegalCalls(contest, process_data(Room, msg, s))
    /\ completed # << >> => LegalCalls(contest, timer_handler(Room, Head(completed)))

\* a second match, started after a clear(), has ended
C1_Witness == cleared = 1 /\ contest.status = "GAME_OVER"

\* ---- C2 ----
\* what enroll(player), called on contest c, throws and leaves
EnrollActs(c, player) ==
    LET r == enroll(c, player)
    IN  /\ c.status # "NOT_PREPARED" => r.ex # "none"
        /\ r.ex # "none" => r.contest = c
        /\ r.ex = "none" =>
              /\ c.status = "NOT_PREPARED"
              /\ Len(r.contest.players) = Len(c.players) + 1
              /\ r.contest.status =
                    IF Len(r.contest.players) = 2 THEN "ON_GOING" ELSE "NOT_PREPARED"
              /\ Len(r.contest.players) = 2 =>
                    {r.contest.players[1].role, r.contest.players[2].role} = {BLACK, WHITE}

\* C2: an enroll that succeeds was called in NOT_PREPARED and adds one player; the
\* status becomes ON_GOING exactly when it fills the second role (the two players
\* then hold the two roles) and stays NOT_PREPARED with one player; an enroll
\* called in ON_GOING or GAME_OVER throws and leaves roster and status unchanged.
C2_Enroll == \A player \in ContestPlayers : EnrollActs(contest, player)

\* a third enroll has failed on a started match
C2_Witness ==
    /\ call = [op |-> "enroll", ex |-> "Contest already started"]
    /\ contest.status = "ON_GOING"
    /\ Len(contest.players) = 2

\* ---- C3 ----
\* C3: a play called when the status is not ON_GOING, or by a player whose role is
\* not the role to move, or on an occupied cell, throws and leaves the contest
\* (board, role to move, last move, moves, status, result, should_giveup) as it was.
C3_PlayRejected ==
    \A player \in ContestPlayers, pos \in ContestMoves :
       (\/ contest.status # "ON_GOING"
        \/ player.role # contest.current.role
        \/ At(contest.current.board, pos) # NONE)
          => /\ play(contest, player, pos).ex # "none"
             /\ play(contest, player, pos).contest = contest

\* a play on an occupied cell has been refused
C3_Witness ==
    /\ call = [op |-> "play", ex |-> "Stone positionition occupied"]
    /\ contest.status = "ON_GOING"
    /\ contest.moves # << >>

\* ---- C4 ----
\* contest d is contest c with player's stone placed on pos
PlayPlaces(c, d, player, pos) ==
    /\ d.current.board = [c.current.board EXCEPT ![idx(pos)] = player.role]
    /\ c.current.role = player.role
    /\ d.current.role = -player.role
    /\ d.current.last_move = pos
    /\ d.moves = Append(c.moves, pos)

\* C4 as stated: an accepted play puts the mover's role on pos and nowhere else,
\* flips the role to move, sets last_move, appends pos to the moves, and a
\* following play on pos by the other player fails as occupied.
C4_AsStated ==
    \A player \in ContestPlayers, pos \in ContestMoves :
       LET r == play(contest, player, pos)
       IN  r.ex = "none" =>
              /\ PlayPlaces(contest, r.contest, player, pos)
              /\ \A other \in ContestPlayers :
                    other.role = -player.role =>
                       play(r.contest, other, pos).ex = "Stone positionition occupied"

\* C4 amended: as stated, but the following play on pos by the other player fails
\* as occupied when the accepted play left the match ON_GOING, and as "Contest not
\* started" when the accepted play ended the match; either way it changes nothing.
C4_PlayPlaces ==
    \A player \in ContestPlayers, pos \in ContestMoves :
       LET r == play(contest, player, pos)
       IN  r.ex = "none" =>
              /\ PlayPlaces(contest, r.contest, player, pos)
              /\ \A other \in ContestPlayers :
                    other.role = -player.role =>
                       /\ play(r.contest, other, pos).contest = r.contest
                       /\ play(r.contest, other, pos).ex =
                             IF r.contest.status = "ON_GOING"
                             THEN "Stone positionition occupied"
                             ELSE "Contest not started"

\* an accepted play has ended the match
C4_Witness ==
    /\ call = [op |-> "play", ex |-> "none"]
    /\ contest.status = "GAME_OVER"
    /\ At(contest.current.board, contest.current.last_move) = -contest.current.role

\* ---- C5 ----
\* C5: an accepted play at pos ends the match (GAME_OVER, SUICIDE) exactly when, on
\* the board after the placement, the group of pos or an adjacent opposing group
\* has no adjacent empty cell; the winner is then the role is_over returns, the
\* opponent of the mover; otherwise the status stays ON_GOING with no result.
C5_PlayCaptures ==
    \A player \in ContestPlayers, pos \in ContestMoves :
       LET r == play(contest, player, pos)
       IN  r.ex = "none" =>
              IF CaptureAt(r.contest.current.board, pos)
              THEN /\ r.contest.status = "GAME_OVER"
                   /\ r.contest.result = [winner |-> -player.role, win_type |-> "SUICIDE",
                                          confirmed |-> FALSE]
                   /\ r.contest.result.winner = is_over(r.contest.current)
              ELSE /\ r.contest.status = "ON_GOING"
                   /\ r.contest.result = NoResult

\* a play has ended the match by placing a stone whose own group has no liberty
C5_Witness ==
    /\ call = [op |-> "play", ex |-> "none"]
    /\ contest.status = "GAME_OVER"
    /\ contest.result.win_type = "SUICIDE"
    /\ Dead(contest.current.board, contest.current.last_move)

\* ---- C6 ----
\* r is the outcome of ending contest c against player, whose turn it must be
EndsAgainst(c, r, player, win_type) ==
    /\ r.ex = "none" =>
          /\ Turn(c, player)
          /\ r.contest = [c EXCEPT !.status = "GAME_OVER",
                                   !.result = [winner |-> -player.role,
                                               win_type |-> win_type,
                                               confirmed |-> FALSE]]
    /\ ~Turn(c, player) => r.ex # "none" /\ r.contest = c

\* C6: a concede that succeeds was called in ON_GOING by the enrolled player whose
\* turn it is, and sets GAME_OVER with the opposing role as winner and GIVEUP; a
\* concede by anyone else or in another status throws and changes nothing.
C6_Concede ==
    \A player \in ContestPlayers :
       EndsAgainst(contest, concede(contest, player), player, "GIVEUP")

\* the player to move has conceded after a move
C6_Witness ==
    /\ call = [op |-> "concede", ex |-> "none"]
    /\ contest.status = "GAME_OVER"
    /\ contest.result = [winner |-> -contest.current.role, win_type |-> "GIVEUP",
                         confirmed |-> FALSE]
    /\ contest.moves # << >>

\* ---- C7 ----
\* C7: a timeout that succeeds was called in ON_GOING for the enrolled player whose
\* turn it is, and sets GAME_OVER with the opposing role as winner and TIMEOUT; a
\* timeout for anyone else or in another status throws and changes nothing.
C7_Timeout ==
    \A player \in ContestPlayers :
       EndsAgainst(contest, timeout(contest, player), player, "TIMEOUT")

\* the player to move has been timed out after a move
C7_Witness ==
    /\ call = [op |-> "timeout", ex |-> "none"]
    /\ contest.status = "GAME_OVER"
    /\ contest.result = [winner |-> -contest.current.role, win_type |-> "TIMEOUT",
                         confirmed |-> FALSE]
    /\ contest.moves # << >>

\* ---- C8 ----
\* session s holds the player to move and the pending deadline is against that player
DeadlineAgainst(s) ==
    /\ timer_ # << >>
    /\ timer_[1].opponent.participant = s
    /\ Turn(contest, timer_[1].opponent)

\* C8: when the player to move has a deadline pending against them and their move
\* message is dispatched before it expires, the deadline is cancelled: its handler
\* is queued with operation_aborted and the wait is no longer pending, so it can no
\* longer expire; and a handler run with operation_aborted calls no Contest.timeout,
\* delivers nothing and changes nothing of the match.
C8_CancelledNeverFires ==
    [][/\ \A s \in Sessions, msg \in Inputs :
             msg.op = "MOVE_OP" /\ DeadlineAgainst(s) /\ Dispatch(s, msg) =>
                /\ completed' = Append(completed,
                                       Completion(timer_[1], "operation_aborted"))
                /\ \A i \in 1 .. Len(timer_') : timer_'[i] # timer_[1]
       /\ RunHandler /\ Head(completed).ec = "operation_aborted" =>
             /\ contest' = contest
             /\ write_msgs_' = write_msgs_
             /\ timer_handler(Room, Head(completed)).R.calls = << >>
             /\ running']_vars

\* the player to move has moved in time: the handler of their deadline is queued
\* with operation_aborted, and the match goes on with their move made
C8_Witness ==
    /\ completed # << >>
    /\ Head(completed).ec = "operation_aborted"
    /\ contest.status = "ON_GOING"
    /\ contest.moves = Append(Head(completed).seen.moves, contest.current.last_move)
    /\ contest.current.role = -Head(completed).opponent.role

\* ---- C9 ----
\* the handler h times its opponent out: GAME_OVER by TIMEOUT, won by the player
\* who moved last, and TIMEOUT_END queued for the session of the timed-out player
TimeoutApplied(h) ==
    /\ contest'.status = "GAME_OVER"
    /\ contest'.result = [winner |-> -h.opponent.role, win_type |-> "TIMEOUT",
                          confirmed |-> FALSE]
    /\ Len(h.seen.moves) > 0
    /\ At(h.seen.current.board, h.seen.moves[Len(h.seen.moves)]) = contest'.result.winner
    /\ write_msgs_' = [write_msgs_ EXCEPT ![h.opponent.participant] =
                          Append(@, OpMsg("TIMEOUT_END_OP"))]

\* C9 as stated: when the deadline armed by an accepted move that left the match
\* ON_GOING has expired with no further move accepted, its handler makes the match
\* GAME_OVER by TIMEOUT, won by the player who moved last, and queues TIMEOUT_END
\* for the session of the timed-out player.
C9_DeadlineTimesOut ==
    [][RunHandler
       /\ Head(completed).ec = "success"
       /\ Head(completed).seen.status = "ON_GOING"
       /\ contest.moves = Head(completed).seen.moves
          => TimeoutApplied(Head(completed)) /\ running']_vars

\* the deadline has expired after the player to move gave up: its handler threw
C9_Witness ==
    /\ ~running
    /\ contest.status = "GAME_OVER"
    /\ contest.result.win_type = "GIVEUP"
    /\ contest.moves # << >>
    /\ contest.players[1].participant # contest.players[2].participant

\* ---- C10 ----
\* C10 as stated: the io_context is never left by an exception, and whenever a
\* handler of the timer is to run with success (and so to call Contest.timeout),
\* the match is ON_GOING and its opponent is the enrolled player to move.
C10_NoFatalFailure ==
    /\ running
    /\ \A i \in 1 .. Len(completed) :
          completed[i].ec = "success" => Turn(contest, completed[i].opponent)

\* the deadline armed by the move that ended the match has expired, and the
\* exception of its handler has stopped the server
C10_Witness ==
    /\ ~running
    /\ contest.result.win_type = "SUICIDE"
    /\ contest.players[1].participant # contest.players[2].participant

\* ---- C11 ----
\* the what() of the exceptions Contest and PlayerList throw
ContestErrors ==
    {"Contest already started", "Contest not started", "not allowed to play",
     "Stone positionition occupied", "not allowed to concede", "not in turn",
     "Player not found", "Player already in list", "No role for player",
     "Role already occupied"}

\* in room R2, of the sessions of room R1 only s has been stopped
StopsOnly(R1, R2, s) ==
    /\ R2.socket_open = [R1.socket_open EXCEPT ![s] = FALSE]
    /\ R2.participants_ = R1.participants_ \ {s}

\* C11 as stated: a dispatched message, of any operation code, that raises a
\* precondition violation of the Contest or its PlayerList leaves the Contest as
\* it was before the dispatch, and stops the session that sent it and no other.
C11_AllOrNothing ==
    \A s \in accepted, msg \in Inputs :
       socket_open[s] =>
          LET d == reader(Room, msg, s)
          IN  d.ex \in ContestErrors =>
                 /\ d.R.contest = contest
                 /\ StopsOnly(Room, d.R, s)

\* START_LOCAL_GAME_OP has enrolled its first player, started the match by it,
\* and thrown at its second enroll
C11_Witness ==
    /\ contest.status = "ON_GOING"
    /\ contest.moves = << >>
    /\ Len(contest.players) = 2
    /\ contest.players[1].type = "REMOTE_HUMAN_PLAYER"
    /\ contest.players[2].type = "LOCAL_HUMAN_PLAYER"
    /\ ~socket_open[contest.players[2].participant]

\* ---- C12 ----
\* C12 as stated: a chat message dispatched from session s is appended once to
\* the queue of every session joined to the room other than s, and the queue of
\* s (and of every session not joined) is left as it was.
C12_ChatFanOut ==
    \A s \in accepted, text \in ChatTexts :
       socket_open[s] =>
          LET msg == Msg("CHAT_OP", text, str_empty)
              d == reader(Room, msg, s)
          IN  \A t \in Sessions :
                 d.R.write_msgs_[t] =
                    IF t \in participants_ \ {s}
                    THEN Append(write_msgs_[t], msg)
                    ELSE write_msgs_[t]

\* a session that is alone in the room has been sent back its own chat message
C12_Witness ==
    /\ accepted = {1}
    /\ chat_log # << >>
    /\ write_msgs_[1] # << >>
    /\ write_msgs_[1][Len(write_msgs_[1])] = chat_log[Len(chat_log)]

\* ---- C13 ----
\* the last n elements of sequence q
Last(q, n) == SubSeq(q, Len(q) - n + 1, Len(q))

\* C13 as stated: the buffer never holds more than 100 messages, and once more
\* than 100 chat messages have been dispatched, a session that joins is delivered
\* the 100 most recent of them, in their order, and nothing else.
C13_ChatReplay ==
    /\ Len(recent_msgs_) <= max_recent_msgs
    /\ Len(chat_log) > max_recent_msgs =>
          \A s \in Sessions \ accepted :
             join(Room, s).write_msgs_[s] = Last(chat_log, max_recent_msgs)

\* after more than 100 chat messages a session has joined and has been delivered
\* a MOVE_OP message of the buffer (it made no move: it holds no SUICIDE_END_OP)
C13_Witness ==
    /\ Len(chat_log) > max_recent_msgs
    /\ \E s \in accepted :
          /\ \E i \in 1 .. Len(write_msgs_[s]) : write_msgs_[s][i].op = "MOVE_OP"
          /\ \A i \in 1 .. Len(write_msgs_[s]) : write_msgs_[s][i].op # "SUICIDE_END_OP"

\* ---- C14 ----
EndOps == {"TIMEOUT_END_OP", "SUICIDE_END_OP", "GIVEUP_END_OP"}

\* C14 as stated: a TIMEOUT_END, SUICIDE_END or GIVEUP_END message from a client
\* stops the session that sent it and removes it from the room, and leaves the
\* match, the buffer and every other session as they were.
C14_EndOpsRejected ==
    \A s \in accepted, op \in EndOps :
       socket_open[s] =>
          LET d == reader(Room, OpMsg(op), s)
          IN  /\ StopsOnly(Room, d.R, s)
              /\ d.R.contest = contest
              /\ d.R.recent_msgs_ = recent_msgs_
              /\ d.R.write_msgs_ = write_msgs_

\* ---- C15 ----
\* "A:", which MOVE_OP decodes to x = 0, y = 9: a cell that is not on the board,
\* at the index of arr that holds the cell x = 1, y = 0
OutOfGridTokens == {<< 65, 58 >>}

\* C15 as stated: a MOVE_OP whose coordinate decodes to a position outside the
\* grid is refused: Contest::play is not called, and the match is unchanged.
C15_OutOfGridRejected ==
    \A s \in accepted, token \in OutOfGridTokens :
       socket_open[s] /\ ~in_border(decode_pos(token)) =>
          LET d == reader(Room, Msg("MOVE_OP", token, str_ms), s)
          IN  /\ d.ex # "none"
              /\ \A i \in 1 .. Len(d.R.calls) : d.R.calls[i].op # "play"
              /\ d.R.contest = contest

\* ---- C16 ----
\* what has been passed to Session::deliver of s is what was transmitted, then
\* what is queued: each message at most once, in the order of the enqueuing
FifoOnce(s) == delivered[s] = sent[s] \o write_msgs_[s]

\* the writer of s is not left in its idle wait with a message queued
NoLostWakeup(s) == writer_pc[s] = "wait" /\ socket_open[s] => write_msgs_[s] = << >>

\* C16: for each session, the messages transmitted are always the first of the
\* messages passed to deliver(), in their order and each once, the rest being
\* queued; the writer never idles with a message queued (no wake-up is lost);
\* and the n-th message passed to deliver() is eventually transmitted, unless
\* the socket is closed.
C16_WriterFifo ==
    /\ [](\A s \in Sessions : FifoOnce(s) /\ NoLostWakeup(s))
    /\ \A s \in Sessions, n \in 1 .. MaxChats :
          (Len(delivered[s]) >= n) ~> (Len(sent[s]) >= n \/ ~socket_open[s])

\* a first message has been transmitted and two more were passed to deliver()
\* while the next write is in progress
C16_Witness ==
    \E s \in Sessions :
       /\ socket_open[s]
       /\ writer_pc[s] = "write"
       /\ Len(sent[s]) >= 1
       /\ Len(write_msgs_[s]) >= 2

\* ---- C17 ----
\* stop() has been invoked on session s: only stop() closes the socket
Stopped(s) == s \in accepted /\ ~socket_open[s]

\* C17: once stop() has been invoked on a session, calling it again changes
\* neither the room nor the session, and the reader and the writer of the
\* session both eventually return, wherever they were suspended.
C17_StopTerminates ==
    /\ [](\A s \in Sessions :
            Stopped(s) => stop(Room, s) = Room /\ Resumed(stop(Room, s)) = writer_pc)
    /\ \A s \in Sessions :
          Stopped(s) ~> (reader_pc[s] = "done" /\ writer_pc[s] = "done")

\* a session that had transmitted a message and had another queued has been
\* stopped, and both its coroutines have returned
C17_Witness ==
    \E s \in Sessions :
       /\ Stopped(s)
       /\ reader_pc[s] = "done" /\ writer_pc[s] = "done"
       /\ sent[s] # << >>
       /\ write_msgs_[s] # << >>

\* ---- C18 ----
\* room R2 is room R1 but for session s, which is not joined to it: the Contest,
\* the other sessions joined, and the queue and socket of every other session
\* are the same
Departed(R1, R2, s) ==
    /\ R2.participants_ = R1.participants_ \ {s}
    /\ R2.contest = R1.contest
    /\ \A t \in Sessions \ {s} :
          /\ R2.write_msgs_[t] = R1.write_msgs_[t]
          /\ R2.socket_open[t] = R1.socket_open[t]

\* a broadcast of room R, by Room::deliver or by CHAT_OP, of a message from any
\* session that can send one, appends nothing to the queue of session s
NoBroadcastTo(R, s) ==
    \A t \in Sessions \ {s}, text \in ChatTexts :
       LET msg == Msg("CHAT_OP", text, str_empty)
       IN  R.socket_open[t] =>
              /\ Room_deliver(R, msg, t).write_msgs_[s] = R.write_msgs_[s]
              /\ process_data(R, msg, t).R.write_msgs_[s] = R.write_msgs_[s]

\* C18: when a session leaves (LEAVE_OP) or is stopped (transport failure), it
\* is removed from the participants, the Contest and the queues and membership
\* of the other sessions are as before, and no broadcast reaches it: neither
\* then nor in any later state.
C18_Departure ==
    /\ \A s \in accepted :
          socket_open[s] =>
             /\ Departed(Room, stop(Room, s), s)
             /\ Departed(Room, reader(Room, OpMsg("LEAVE_OP"), s).R, s)
             /\ NoBroadcastTo(stop(Room, s), s)
             /\ NoBroadcastTo(reader(Room, OpMsg("LEAVE_OP"), s).R, s)
    /\ \A s \in accepted :
          ~socket_open[s] => s \notin participants_ /\ NoBroadcastTo(Room, s)

\* a player has left during its match, the other player still being joined
C18_Witness ==
    /\ contest.status = "ON_GOING"
    /\ contest.moves # << >>
    /\ \E s \in accepted :
          /\ ~socket_open[s]
          /\ participants_ = accepted \ {s}
          /\ participants_ # {}
          /\ \E i \in 1 .. Len(contest.players) : contest.players[i].participant = s

\* ---- C19 ----
\* the roles no player of the list has
Vacant(players) == {r \in {BLACK, WHITE} : ~contains(players, r)}

\* C19 as stated: insert of a player with role NONE appends the player with the
\* vacant role, with BLACK when both roles are vacant, and fails only when no
\* role is vacant; insert of a player with role BLACK or WHITE fails when the
\* role is occupied.
C19_InsertRole ==
    \A player \in ContestPlayers :
       LET players == contest.players
           r == insert(players, player)
           role == IF BLACK \in Vacant(players) THEN BLACK ELSE WHITE
       IN  IF player.role = NONE
           THEN IF Vacant(players) = {}
                THEN r.ex # "none" /\ r.players = players
                ELSE /\ r.ex = "none"
                     /\ r.players = Append(players, [player EXCEPT !.role = role])
           ELSE player.role \notin Vacant(players) =>
                   r.ex # "none" /\ r.players = players

\* enroll of a player with role NONE in the empty roster has thrown
C19_Witness ==
    /\ call = [op |-> "enroll", ex |-> "No role for player"]
    /\ contest.players = << >>

\* ---- C20 ----
\* the roles of the players of the roster, in its order
RosterRoles == [i \in 1 .. Len(contest.players) |-> contest.players[i].role]

\* C20: the roster holds at most 2 players, no two of them with the same role
\* and none with role NONE; when the status is ON_GOING or GAME_OVER it holds
\* one BLACK and one WHITE player.
C20_Roster ==
    /\ Len(contest.players) <= 2
    /\ \A i, j \in 1 .. Len(contest.players) : RosterRoles[i] = RosterRoles[j] => i = j
    /\ \A i \in 1 .. Len(contest.players) : RosterRoles[i] \in {BLACK, WHITE}
    /\ contest.status \in {"ON_GOING", "GAME_OVER"} =>
          /\ Len(contest.players) = 2
          /\ {RosterRoles[i] : i \in 1 .. 2} = {BLACK, WHITE}

\* a match is over, by a move, whose WHITE player was enrolled first
C20_Witness ==
    /\ contest.status = "GAME_OVER"
    /\ contest.moves # << >>
    /\ RosterRoles = << WHITE, BLACK >>

\* ---- C21 ----
\* the cells of the 2 x 2 block of the corner: a group with a cycle
Block == {Pos(0, 0), Pos(0, 1), Pos(1, 0), Pos(1, 1)}

\* C21: on every board, liberties answers the same for any two occupied cells of
\* one connected same-role group, and answers true exactly when a cell of the
\* group has an orthogonally adjacent empty cell; every call returns.
C21_Liberties ==
    LET arr == contest.current.board
    IN  call.op = "liberties" =>
           /\ call.r = ~Dead(arr, call.p)
           /\ \A q \in Group(arr, call.p) : liberties(arr, q) = call.r

\* liberties was asked of a cell of the 2 x 2 block, one group with a cycle and
\* with no empty cell next to it, and answered false
C21_Witness ==
    /\ call.op = "liberties"
    /\ call.p \in Block
    /\ \A q \in Block : At(contest.current.board, q) = BLACK
    /\ ~call.r

\* ---- C22 ----
\* the operation codes of a local game that change the Contest
LocalOps == {"START_LOCAL_GAME_OP", "MOVE_OP", "GIVEUP_OP", "LOCAL_GAME_TIMEOUT_OP"}

\* a handler that has changed the Contest, leaving the room as R, has passed a
\* snapshot of the Contest as it left it to a session
Snapshot(R) ==
    R.contest # contest =>
       \E s \in Sessions : \E i \in 1 .. Len(Passed(R, s)) :
          Passed(R, s)[i] = UiMessage(R.contest)

\* the client's messages of a local game are followed by a snapshot
SnapshotByDispatch ==
    \A s \in accepted, msg \in Inputs :
       socket_open[s] /\ msg.op \in LocalOps /\ reader(Room, msg, s).ex = "none" =>
          Snapshot(reader(Room, msg, s).R)

\* the handler of the turn deadline is followed by a snapshot
SnapshotByTimer ==
    completed # << >> =>
       Snapshot(timer_handler([Room EXCEPT !.completed = Tail(@)], Head(completed)).R)

\* C22 as stated: in a local room, every handler that changes the Contest (the
\* start of a local game, an accepted move, a concession, a timeout the client
\* reports, a timeout the timer forces) delivers a UI snapshot of the changed
\* Contest.
C22_UiSnapshot == is_local => SnapshotByDispatch /\ SnapshotByTimer

\* in a local room the timer has ended the match: the session's last message is
\* TIMEOUT_END_OP, with no snapshot after it
C22_Witness ==
    /\ is_local
    /\ contest.status = "GAME_OVER"
    /\ contest.result.win_type = "TIMEOUT"
    /\ \E s \in accepted :
          /\ write_msgs_[s] # << >>
          /\ write_msgs_[s][Len(write_msgs_[s])] = OpMsg("TIMEOUT_END_OP")

\* ---- C23 ----
\* the session of the opponent of the player that session s moves for (MOVE_OP:
\* players.at(Role::NONE, participant), players.at(-player.role))
OpponentSession(c, s) ==
    at(c.players, -at(c.players, NONE, s).player.role, nullptr).player.participant

\* message m, or a snapshot of Contest c, is among the messages q
Carries(q, m, c) == \E i \in 1 .. Len(q) : q[i] = m \/ q[i] = UiMessage(c)

\* C23 as stated: in a remote room, when a move of a player is accepted, the
\* session of the opponent is passed the move message (or the resulting state),
\* whether the match goes on or has ended by the move, and the session of the
\* mover is not passed its own move.
C23_MoveRebroadcast ==
    ~is_local =>
       \A s \in accepted, msg \in Inputs :
          socket_open[s] /\ msg.op = "MOVE_OP" /\ reader(Room, msg, s).ex = "none" =>
             LET R == reader(Room, msg, s).R
                 o == OpponentSession(contest, s)
             IN  o # s =>
                    /\ Carries(Passed(R, o), msg, R.contest)
                    /\ ~ \E i \in 1 .. Len(Passed(R, s)) : Passed(R, s)[i] = msg

\* in a remote room with two sessions playing, a move has been accepted, the
\* match goes on, and the session of the player now to move has been sent nothing
C23_Witness ==
    /\ ~is_local
    /\ contest.status = "ON_GOING"
    /\ contest.moves # << >>
    /\ Len(contest.players) = 2
    /\ contest.players[1].participant # contest.players[2].participant
    /\ \A i \in 1 .. 2 :
          contest.players[i].role = contest.current.role =>
             write_msgs_[contest.players[i].participant] = << >>

\* ---- C24 ----
\* what Contest::play and PlayerList::at throw at a move that is refused: the
\* sender is no player, it is not the sender's turn, the cell is occupied
MoveRefusals == {"Player not found", "not allowed to play", "Stone positionition occupied"}

\* C24 as stated: a move message that is refused while a deadline is pending
\* against the player to move leaves that deadline pending: no wait is cancelled
\* and no handler is queued.
C24_RefusedMoveKeepsDeadline ==
    \A s \in accepted, msg \in Inputs :
       /\ socket_open[s] /\ msg.op = "MOVE_OP"
       /\ timer_ # << >> /\ Turn(contest, timer_[1].opponent)
       /\ reader(Room, msg, s).ex \in MoveRefusals
       => /\ reader(Room, msg, s).R.timer_ = timer_
          /\ reader(Room, msg, s).R.completed = completed

\* the match goes on after its last accepted move, whose deadline has been
\* cancelled: no deadline is pending against the player to move
C24_Witness ==
    /\ contest.status = "ON_GOING"
    /\ contest.moves # << >>
    /\ timer_ = << >>
    /\ completed # << >>
    /\ Head(completed).ec = "operation_aborted"
    /\ Head(completed).seen.moves = contest.moves

\* ---- C25 ----
\* the handler h, queued by the expiry of its deadline, belongs to a wait that
\* was armed before the last clear: the moves it has seen are not the first
\* moves of the match that is going on now
ArmedBeforeClear(h) ==
    /\ cleared > 0
    /\ h.ec = "success"
    /\ \/ Len(h.seen.moves) > Len(contest.moves)
       \/ h.seen.moves # SubSeq(contest.moves, 1, Len(h.seen.moves))

\* C25 as stated: the handler of a deadline armed before the clear, run during
\* the match started after it, calls no Contest::timeout on that match, does not
\* change it, and delivers nothing.
C25_OldDeadline ==
    completed # << >> /\ ArmedBeforeClear(Head(completed)) /\ contest.status = "ON_GOING" =>
       LET r == timer_handler([Room EXCEPT !.completed = Tail(@)], Head(completed))
       IN  /\ r.R.calls = << >>
           /\ r.R.contest = contest
           /\ r.R.write_msgs_ = write_msgs_

\* a match started after a clear has been ended by TIMEOUT with the session sent
\* TIMEOUT_END_OP last, by a deadline that no move of this match has armed: the
\* match has had one move, and no handler of its deadline is queued or pending
\* for another cell
C25_Witness ==
    /\ cleared = 1
    /\ contest.status = "GAME_OVER"
    /\ contest.result.win_type = "TIMEOUT"
    /\ Len(contest.moves) = 1
    /\ \E s \in accepted :
          /\ write_msgs_[s] # << >>
          /\ write_msgs_[s][Len(write_msgs_[s])] = OpMsg("TIMEOUT_END_OP")
    /\ timer_ # << >>
    /\ timer_[1].seen.moves = contest.moves
====
